---- MODULE Spec2Model ----
(***************************************************************************)
(* Module lifecycle core of the Spandak8s hybrid backend                   *)
(* (src/backend/hybrid_main.py): status derivation from live workloads,    *)
(* enable / disable through the Helm release manager, resource cleanup.    *)
(*                                                                         *)
(* Strings that the code builds with '-' (namespaces, release names,       *)
(* workload names) are sequences of '-'-separated tokens, so that          *)
(* f"{a}-{b}" is a \o b and s.split('-') is the token sequence.            *)
(***************************************************************************)
EXTENDS Integers, Sequences, FiniteSets, TLC

(***************************************************************************)
(* Bounds                                                                  *)
(***************************************************************************)
MaxReplicas == 2

\* enable requests that reach the server in one behaviour of SpecConc
MaxRequests == 2

\* modification times the definitions file can carry
MaxMtime == 3

\* frames the interpreter allows before it raises RecursionError
RecursionLimit == 3

(***************************************************************************)
(* Request parameters                                                      *)
(***************************************************************************)
Tenants == {<<"acme">>, <<"test", "deployment">>}
Environments == {<<"dev">>}
Tiers == {"bronze"}

Spark == <<"spark">>
Vault == <<"security", "vault">>
Ghost == <<"ghost">>

\* keys of definitions["modules"]
CatalogModules == {Spark, Vault}
ModuleNames == CatalogModules \cup {Ghost}

\* namespace = f"{tenant_name}-{environment}"
Namespace(tenant_name, environment) == tenant_name \o environment

Namespaces == {Namespace(t, e) : t \in Tenants, e \in Environments}

\* release_name = f"{namespace}-{module_name}"
ReleaseName(namespace, module_name) == namespace \o module_name

(***************************************************************************)
(* Cluster objects.  A label is <<key, value tokens>>.                     *)
(***************************************************************************)
LModule(v) == <<"spanda.ai/module", v>>
LService(v) == <<"service", v>>
LComponent(v) == <<"component", v>>
LInstance(v) == <<"app.kubernetes.io/instance", v>>
LAppComponent(v) == <<"app.kubernetes.io/component", v>>

DataLakeBaremetal == <<"data", "lake", "baremetal">>
DataLake == <<"data", "lake">>

\* the workloads a release of a module consists of
ChartWorkloads(namespace, module_name) ==
    IF module_name = Spark
    THEN {[ns |-> namespace, kind |-> "deployment", name |-> <<"spark", "master">>]}
    ELSE IF module_name = Vault
    THEN {[ns |-> namespace, kind |-> "statefulset", name |-> <<"vault">>]}
    ELSE {}

WorkloadIds == UNION {ChartWorkloads(n, m) : n \in Namespaces, m \in CatalogModules}

Labels(w) ==
    IF w.name = <<"spark", "master">>
    THEN {LModule(DataLakeBaremetal), LService(<<"spark", "master">>), LComponent(DataLake)}
    ELSE IF w.name = <<"minio">>
    THEN {LModule(DataLakeBaremetal), LService(<<"minio">>), LComponent(DataLake)}
    ELSE {LInstance(ReleaseName(w.ns, Vault)), LAppComponent(<<"vault", "server">>),
          LService(Vault)}

\* the data lake as the listing endpoints meet it: Spark's Deployment and the
\* MinIO StatefulSet, both labelled spanda.ai/module=data-lake-baremetal
ListingWorkloads(namespace) ==
    {[ns |-> namespace, kind |-> "deployment", name |-> <<"spark", "master">>],
     [ns |-> namespace, kind |-> "statefulset", name |-> <<"minio">>]}

\* spec.replicas that the charts ask for
ChartReplicas == MaxReplicas

\* a workload runs at the scale of its chart or is scaled to zero; a read of
\* .status.readyReplicas may be stale and exceed .spec.replicas
ReplicaStates == [desired : {0, ChartReplicas}, ready : 0..(MaxReplicas + 1)]

(***************************************************************************)
(* State                                                                   *)
(***************************************************************************)
VARIABLES
    workloads,   \* Deployments / StatefulSets in the cluster: id -> replica state
    releases,    \* release names known to the release manager
    namespaces,  \* namespaces that exist in the cluster
    pvcs,        \* PersistentVolumeClaims: records [ns, name]
    jobs,        \* Jobs: records [ns, name, instance]
    tenant,      \* the tenant the client is configured for (tenant.name)
    call,        \* trace and result of the handler that has just returned
    requests,    \* enable requests the server has accepted, in order of arrival
    config_file,         \* config/module-definitions.yaml: [exists, mtime, content]
    module_definitions,  \* the global _module_definitions: <<>> is None
    last_modified,       \* the global _last_modified: <<>> is None
    loaded,      \* outcome of the get_module_definitions call that has just returned
    session,     \* headers of the CLI client's requests.Session
    logged,      \* outcome of the SpandaAPIClient.login call that has just returned
    discovery    \* the CLI's get_available_modules: its frames and its outcome

\* the backend's definition cache and the CLI process
host == <<config_file, module_definitions, last_modified, loaded, session, logged,
          discovery>>

vars == <<workloads, releases, namespaces, pvcs, jobs, tenant, call, requests, host>>

(***************************************************************************)
(* Helpers                                                                 *)
(***************************************************************************)
Range(s) == {s[i] : i \in 1..Len(s)}

RECURSIVE SetToSeq(_)
SetToSeq(S) ==
    IF S = {} THEN <<>>
    ELSE LET x == CHOOSE y \in S : TRUE IN <<x>> \o SetToSeq(S \ {x})

\* needle in haystack, for '-'-tokenised strings
Contains(haystack, needle) ==
    \E i \in 0..(Len(haystack) - Len(needle)) :
        \A j \in 1..Len(needle) : haystack[i + j] = needle[j]

(***************************************************************************)
(* Cluster Status Reader: kubectl path                                     *)
(***************************************************************************)
\* outcomes of the external calls of one status evaluation (the condition of
\* the infrastructure lasts for the request: a handler's pre-check and
\* post-check meet the same one):
\*   kubectl: "ok" | "exit1" (every kubectl exits non-zero) |
\*            "repfail" (the replica queries exit non-zero) | "raise"
\*   api:     "unused" | "none" (k8s_apps is None) | "ok" | "raise"
QueryModes ==
    {[kubectl |-> "ok", api |-> "unused"],
     [kubectl |-> "exit1", api |-> "unused"],
     [kubectl |-> "repfail", api |-> "unused"],
     [kubectl |-> "raise", api |-> "none"],
     [kubectl |-> "raise", api |-> "ok"],
     [kubectl |-> "raise", api |-> "raise"]}

LabelSelectors(namespace, module_name) ==
    <<LModule(DataLakeBaremetal), LModule(module_name), LService(module_name),
      LComponent(DataLake)>>
    \o (IF module_name = Spark
        THEN <<LService(<<"spark", "master">>), LService(<<"spark", "notebook">>),
               LService(<<"spark", "worker">>)>>
        ELSE <<>>)
    \o (IF module_name = Vault
        THEN <<LInstance(ReleaseName(namespace, module_name)),
               LAppComponent(<<"vault", "server">>)>>
        ELSE <<>>)

\* kubectl get <kind> -n <namespace> -l '<selector>' -o name
KubectlGetNames(wl, namespace, kind, selector) ==
    SetToSeq({w.name : w \in {x \in DOMAIN wl :
                 x.ns = namespace /\ x.kind = kind /\ selector \in Labels(x)}})

RECURSIVE FoundBySelectors(_, _, _, _)
FoundBySelectors(wl, namespace, kind, selectors) ==
    IF selectors = <<>> THEN <<>>
    ELSE KubectlGetNames(wl, namespace, kind, Head(selectors))
         \o FoundBySelectors(wl, namespace, kind, Tail(selectors))

\* the broader component=data-lake search, filtered by module name
SpecialCaseDeployments(wl, namespace, module_name) ==
    SelectSeq(KubectlGetNames(wl, namespace, "deployment", LComponent(DataLake)),
              LAMBDA dep : Contains(dep, module_name))

\* faulty variant: the found names are not de-duplicated
Dedup_none(found) == found

\* list(set(found))
Dedup(found) == SetToSeq(Range(found))

\* READY:.status.readyReplicas is printed as <none> when the field is absent
ReadyColumn(rs) == IF rs.ready = 0 THEN <<>> ELSE <<rs.ready>>

\* faulty variant: an absent value counts as one replica
ParseColumn_one(part) == IF part # <<>> THEN part[1] ELSE 1

\* int(part) if part.isdigit() else 0
ParseColumn(part) == IF part # <<>> THEN part[1] ELSE 0

\* kubectl get <kind> <names> --no-headers -o custom-columns=READY,DESIRED
KubectlGetReplicas(wl, namespace, kind, names) ==
    [i \in 1..Len(names) |->
        LET rs == wl[[ns |-> namespace, kind |-> kind, name |-> names[i]]]
        IN  [ready |-> ReadyColumn(rs), desired |-> <<rs.desired>>]]

RECURSIVE SumRows(_)
SumRows(rows) ==
    IF rows = <<>> THEN [desired |-> 0, ready |-> 0]
    ELSE LET rest == SumRows(Tail(rows))
         IN  [desired |-> ParseColumn(Head(rows).desired) + rest.desired,
              ready |-> ParseColumn(Head(rows).ready) + rest.ready]

VaultStatus(total_replicas, ready_replicas) ==
    IF total_replicas > 0 /\ ready_replicas >= total_replicas THEN "running"
    ELSE IF ready_replicas = 0 THEN "failed"
    ELSE "degraded"

GeneralStatus(total_replicas, ready_replicas) ==
    IF ready_replicas = 0 THEN "failed"
    ELSE IF ready_replicas = total_replicas THEN "running"
    ELSE "degraded"

NotDeployedRecord ==
    [deployed |-> FALSE, status |-> "not_deployed", replicas |-> <<>>, error |-> <<>>,
     statefulsets |-> {}, deployments |-> {}]

\* faulty variant: the exception text is dropped from the record
UnknownRecord_silent(e) ==
    [deployed |-> FALSE, status |-> "unknown", replicas |-> <<>>, error |-> <<>>,
     statefulsets |-> {}, deployments |-> {}]

UnknownRecord(e) ==
    [deployed |-> FALSE, status |-> "unknown", replicas |-> <<>>, error |-> <<e>>,
     statefulsets |-> {}, deployments |-> {}]

is_module_deployed_via_kubectl(wl, namespace, module_name, kubectl) ==
    IF kubectl = "raise" THEN UnknownRecord("kubectl")
    ELSE
    LET label_selectors == LabelSelectors(namespace, module_name)
        listed == kubectl # "exit1"
        sts_all == IF listed
                   THEN Dedup(FoundBySelectors(wl, namespace, "statefulset", label_selectors))
                   ELSE <<>>
        deployments_found ==
            IF listed
            THEN Dedup(FoundBySelectors(wl, namespace, "deployment", label_selectors)
                       \o SpecialCaseDeployments(wl, namespace, module_name))
            ELSE <<>>
        statefulsets_found ==
            IF module_name = Vault
            THEN SelectSeq(sts_all, LAMBDA sts : Contains(sts, <<"vault">>))
            ELSE sts_all
        is_deployed == Len(statefulsets_found) > 0 \/ Len(deployments_found) > 0
        sts_rows == IF kubectl = "ok"
                    THEN KubectlGetReplicas(wl, namespace, "statefulset", statefulsets_found)
                    ELSE <<>>
        dep_rows == IF kubectl = "ok"
                    THEN KubectlGetReplicas(wl, namespace, "deployment", deployments_found)
                    ELSE <<>>
        sums == SumRows(sts_rows \o dep_rows)
        status == IF module_name = Vault /\ statefulsets_found # <<>>
                  THEN VaultStatus(sums.desired, sums.ready)
                  ELSE GeneralStatus(sums.desired, sums.ready)
    IN  IF is_deployed
        THEN [deployed |-> TRUE, status |-> status, replicas |-> <<sums>>,
              error |-> <<>>, statefulsets |-> Range(statefulsets_found),
              deployments |-> Range(deployments_found)]
        ELSE NotDeployedRecord

(***************************************************************************)
(* Cluster Status Reader: Kubernetes API fallback                          *)
(***************************************************************************)
module_label_mapping(module_name) ==
    IF module_name = Spark THEN <<DataLakeBaremetal, Spark>>
    ELSE IF module_name = Vault
    THEN <<Vault, <<"keyholding">>, <<"primary">>, <<"vault">>>>
    ELSE <<module_name>>

\* k8s_apps.list_namespaced_<kind>(namespace, label_selector).items
ApiList(wl, namespace, kind, selector) ==
    SetToSeq({x \in DOMAIN wl :
                 x.ns = namespace /\ x.kind = kind /\ selector \in Labels(x)})

RECURSIVE ApiFound(_, _, _, _, _)
ApiFound(wl, namespace, kind, module_name, possible_labels) ==
    IF possible_labels = <<>> THEN <<>>
    ELSE LET items == ApiList(wl, namespace, kind, LModule(Head(possible_labels)))
             more == IF Len(items) = 0
                     THEN ApiList(wl, namespace, kind, LService(module_name))
                     ELSE <<>>
         IN  items \o more \o ApiFound(wl, namespace, kind, module_name, Tail(possible_labels))

\* {w.metadata.name: w for w in found}.values()
UniqueByName(found) ==
    SetToSeq({w \in Range(found) :
        \E i \in 1..Len(found) :
            /\ found[i] = w
            /\ \A j \in (i + 1)..Len(found) : found[j].name # w.name})

\* .status.replicas: the pods that exist, which include the ready ones
StatusReplicas(rs) == IF rs.ready > rs.desired THEN rs.ready ELSE rs.desired

RECURSIVE SumItems(_, _)
SumItems(wl, items) ==
    IF items = <<>> THEN [desired |-> 0, ready |-> 0]
    ELSE LET rest == SumItems(wl, Tail(items))
             rs == wl[Head(items)]
         IN  [desired |-> StatusReplicas(rs) + rest.desired,
              ready |-> rs.ready + rest.ready]

ApiStatus(total_replicas, ready_replicas) ==
    IF ready_replicas = 0 THEN "failed"
    ELSE IF ready_replicas < total_replicas THEN "degraded"
    ELSE "running"

is_module_deployed(wl, namespace, module_name, q) ==
    LET kubectl_result == is_module_deployed_via_kubectl(wl, namespace, module_name, q.kubectl)
    IN
    IF kubectl_result.deployed \/ kubectl_result.status # "unknown" THEN kubectl_result
    ELSE IF q.api = "none" THEN UnknownRecord("Kubernetes API not available")
    ELSE IF q.api = "raise" THEN UnknownRecord("api")
    ELSE
    LET possible_labels == module_label_mapping(module_name)
        unique_deployments ==
            UniqueByName(ApiFound(wl, namespace, "deployment", module_name, possible_labels))
        unique_statefulsets ==
            UniqueByName(ApiFound(wl, namespace, "statefulset", module_name, possible_labels))
        is_deployed == Len(unique_deployments) > 0 \/ Len(unique_statefulsets) > 0
        sums == SumItems(wl, unique_deployments \o unique_statefulsets)
    IN  IF is_deployed
        THEN [deployed |-> TRUE, status |-> ApiStatus(sums.desired, sums.ready),
              replicas |-> <<sums>>, error |-> <<>>,
              statefulsets |-> {}, deployments |-> {}]
        ELSE NotDeployedRecord

(***************************************************************************)
(* Release Orchestrator                                                    *)
(***************************************************************************)
Cluster ==
    [workloads |-> workloads, releases |-> releases, namespaces |-> namespaces,
     pvcs |-> pvcs, jobs |-> jobs]

DataLakeInit == <<"data", "lake", "init">>

\* objects the charts create besides their workloads
ChartPvcs(namespace, module_name) ==
    IF module_name = Vault THEN {[ns |-> namespace, name |-> <<"data", "vault", "0">>]}
    ELSE {}

ChartJobs(namespace, module_name) ==
    IF module_name = Spark
    THEN {[ns |-> namespace, name |-> DataLakeInit,
           instance |-> ReleaseName(namespace, module_name)]}
    ELSE {}

\* an external command that changes the cluster or the release manager
Cmd(verb, namespace, kind, target) ==
    [verb |-> verb, ns |-> namespace, kind |-> kind, target |-> target, sets |-> <<>>]

\* the --set overrides of helm upgrade --install
HelmSets(module_name, namespace, tenant_tier) ==
    [namespace |-> namespace, tenant_name |-> namespace, tenant_tier |-> tenant_tier,
     module_name |-> module_name,
     spandaTenant |-> <<namespace[1]>>,
     spandaEnvironment |-> IF Len(namespace) > 1 THEN <<namespace[2]>> ELSE <<"dev">>,
     create_namespace |-> TRUE]

HelmInstallOutcomes == {"ok", "error", "timeout", "nochart"}

\* what helm upgrade --install does to the cluster when it applies the chart
ApplyChart(cl, namespace, module_name, d, r) ==
    LET chart == ChartWorkloads(namespace, module_name)
    IN  [workloads |-> [w \in (DOMAIN cl.workloads) \cup chart |->
                           IF w \in chart THEN [desired |-> d, ready |-> r]
                           ELSE cl.workloads[w]],
         releases |-> cl.releases \cup {ReleaseName(namespace, module_name)},
         namespaces |-> cl.namespaces \cup {namespace},
         pvcs |-> cl.pvcs \cup ChartPvcs(namespace, module_name),
         jobs |-> cl.jobs \cup ChartJobs(namespace, module_name)]

\* faulty variant: a failed call of the release manager is tried once more
HelmRuns_retry(helm_cmd, helm) ==
    IF helm = "error" THEN <<helm_cmd, helm_cmd>> ELSE <<helm_cmd>>

\* result = subprocess.run(helm_cmd, ...): one call, whatever its outcome
HelmRuns(helm_cmd, helm) == <<helm_cmd>>

\* faulty variant: the timeout falls into the generic handler
DeployTimedOut_generic == <<"Deployment failed", "stderr">>

\* except subprocess.TimeoutExpired: HTTPException(408, ...), as str() prints it
DeployTimedOut == <<"408", "Module deployment timed out">>

\* how the pre-flight kubectl delete job ends: "ok", or "raise" (it cannot be
\* run or its 30 s timeout expires)
PreflightModes == {"ok", "raise"}

\* faulty variant: the Job is deleted in every namespace
AfterPreflight_cluster(cl, namespace, pf) ==
    IF pf = "ok" THEN [cl EXCEPT !.jobs = {j \in cl.jobs : j.name # DataLakeInit}] ELSE cl

\* the Jobs after the pre-flight cleanup
AfterPreflight(cl, namespace, pf) ==
    IF pf = "ok"
    THEN [cl EXCEPT !.jobs = {j \in cl.jobs : ~(j.ns = namespace /\ j.name = DataLakeInit)}]
    ELSE cl

\* faulty variant: an error of the pre-flight cleanup ends the install
PreflightThen_fatal(helm_cmds, pf) == IF pf = "raise" THEN <<>> ELSE helm_cmds

\* try: subprocess.run(cleanup_cmd, ...) except Exception: pass
PreflightThen(helm_cmds, pf) == helm_cmds

\* result: <<dict>> on return, <<>> when an HTTPException is raised (see error)
deploy_module_with_helm(cl, module_name, namespace, environment, tenant_tier, helm, d, r, pf) ==
    LET release_name == ReleaseName(namespace, module_name)
        cleanup_cmd == Cmd("kubectl delete", namespace, "job", DataLakeInit)
        helm_cmd == [Cmd("helm upgrade --install", namespace, "release", release_name)
                        EXCEPT !.sets = <<HelmSets(module_name, namespace, tenant_tier)>>]
        cleaned == AfterPreflight(cl, namespace, pf)
        attempted == <<cleanup_cmd>> \o PreflightThen(HelmRuns(helm_cmd, helm), pf)
    IN  IF helm = "nochart"
        THEN [cl |-> cl, commands |-> <<>>, result |-> <<>>,
              error |-> <<"Deployment failed", "404", "Module deployment files not found">>]
        ELSE IF helm = "ok"
        THEN [cl |-> ApplyChart(cleaned, namespace, module_name, d, r),
              commands |-> attempted,
              result |-> <<[success |-> TRUE, release_name |-> release_name,
                            namespace |-> namespace, output |-> "stdout"]>>,
              error |-> <<>>]
        ELSE IF helm = "error"
        THEN [cl |-> cleaned, commands |-> attempted,
              result |-> <<>>,
              error |-> <<"Deployment failed", "500", "Module deployment failed", "stderr">>]
        ELSE [cl |-> ApplyChart(cleaned, namespace, module_name, d, r),
              commands |-> attempted, result |-> <<>>,
              error |-> DeployTimedOut]

(***************************************************************************)
(* Resource Cleanup Planner and uninstall                                  *)
(***************************************************************************)
HelmUninstallOutcomes == {"ok", "error", "timeout"}

\* how the kubectl pipelines of the cleanup phase end:
\* "ok", "exit1" (non-zero exit, empty stdout), "raise" (every subprocess.run
\* raises) or "raise1" (the first pipeline raises, e.g. on its timeout, and
\* the others end well)
CleanupModes == {"ok", "exit1", "raise", "raise1"}

\* how the i-th cleanup pipeline of the call ends
ModeAt(cmode, i) ==
    IF cmode = "raise1" THEN (IF i = 1 THEN "raise" ELSE "ok") ELSE cmode

\* grep -E '({module_name}|vault|minio|dremio|spark|kafka)'
MatchesModulePatterns(name, module_name) ==
    \/ Contains(name, module_name)
    \/ \E k \in {"vault", "minio", "dremio", "spark", "kafka"} : Contains(name, <<k>>)

cleanup_tasks(cleanup_pvcs) ==
    <<"secrets", "configmaps", "serviceaccounts", "roles", "rolebindings",
      "networkpolicies", "ingresses">>
    \o (IF ~cleanup_pvcs THEN <<"pvcs">> ELSE <<>>)

common_crds ==
    <<"kafkas.kafka.strimzi.io", "kafkatopics.kafka.strimzi.io",
      "kafkausers.kafka.strimzi.io", "vaults.vault.security.coreos.com",
      "vaultpolicies.vault.security.coreos.com", "certificates.cert-manager.io",
      "issuers.cert-manager.io">>

\* kubectl get <kind> -n ns -o name | grep -E patterns | xargs -r kubectl delete
DeleteMatching(namespace, kind, module_name) ==
    Cmd("kubectl delete matching", namespace, kind, module_name)

\* faulty variant: the PVC step is skipped when the complete cleanup runs
CleanupCommands_exclusive(module_name, namespace, cleanup_pvcs, cleanup_all) ==
    (IF cleanup_pvcs /\ ~cleanup_all
     THEN <<DeleteMatching(namespace, "pvcs", module_name)>> ELSE <<>>)
    \o (IF cleanup_all
        THEN [i \in 1..7 |-> DeleteMatching(namespace, cleanup_tasks(TRUE)[i], module_name)]
        ELSE <<>>)
    \o <<Cmd("kubectl delete by label", namespace, "job",
             ReleaseName(namespace, module_name))>>

\* the cleanup commands undeploy_module_with_helm issues after the uninstall
CleanupCommands(module_name, namespace, cleanup_pvcs, cleanup_all) ==
    (IF cleanup_pvcs THEN <<DeleteMatching(namespace, "pvcs", module_name)>> ELSE <<>>)
    \o (IF cleanup_all
        THEN [i \in 1..Len(cleanup_tasks(cleanup_pvcs)) |->
                 DeleteMatching(namespace, cleanup_tasks(cleanup_pvcs)[i], module_name)]
             \o [i \in 1..Len(common_crds) |->
                 DeleteMatching(namespace, common_crds[i], module_name)]
        ELSE <<>>)
    \o <<Cmd("kubectl delete by label", namespace, "job",
             ReleaseName(namespace, module_name))>>

PvcVictims(cl, namespace, module_name) ==
    {p \in cl.pvcs : p.ns = namespace /\ MatchesModulePatterns(p.name, module_name)}

\* one entry of cleanup_results
Outcome(kind, outcome) == [kind |-> kind, outcome |-> outcome]

\* entry appended for one pipeline of kind `kind` that had `victims` to delete
TaskOutcome(kind, victims, cmode) ==
    IF cmode = "raise" THEN Outcome(kind, "warning")
    ELSE IF cmode = "ok" /\ victims # {} THEN Outcome(kind, "cleaned")
    ELSE Outcome(kind, "none found")

\* what one cleanup command appends to cleanup_results: the job cleanup reports
\* "cleaned" unless it raises; a custom-resource pipeline reports only what it
\* deleted (the cluster holds no custom resources) and passes when it raises
EntryFor(cmd, victims, mode) ==
    IF cmd.verb = "kubectl delete by label"
    THEN (IF mode # "raise" THEN <<Outcome("jobs", "cleaned")>> ELSE <<>>)
    ELSE IF cmd.kind \in Range(common_crds) THEN <<>>
    ELSE <<TaskOutcome(cmd.kind, IF cmd.kind = "pvcs" THEN victims ELSE {}, mode)>>

RECURSIVE ResultsFrom(_, _, _, _)
ResultsFrom(cmds, i, victims, cmode) ==
    IF i > Len(cmds) THEN <<>>
    ELSE EntryFor(cmds[i], victims, ModeAt(cmode, i))
         \o ResultsFrom(cmds, i + 1, victims, cmode)

CleanupResults(cl, module_name, namespace, cleanup_pvcs, cleanup_all, cmode) ==
    <<Outcome("release", "uninstalled")>>
    \o ResultsFrom(CleanupCommands(module_name, namespace, cleanup_pvcs, cleanup_all), 1,
                   PvcVictims(cl, namespace, module_name), cmode)

\* the cluster after the cleanup commands have run
AfterCleanup(cl, module_name, namespace, cleanup_pvcs, cleanup_all, cmode) ==
    LET cmds == CleanupCommands(module_name, namespace, cleanup_pvcs, cleanup_all)
        pvcs_deleted == \E i \in 1..Len(cmds) :
                            cmds[i].kind = "pvcs" /\ ModeAt(cmode, i) = "ok"
        jobs_deleted == ModeAt(cmode, Len(cmds)) = "ok"
    IN  [cl EXCEPT
            !.pvcs = IF pvcs_deleted
                     THEN cl.pvcs \ PvcVictims(cl, namespace, module_name)
                     ELSE cl.pvcs,
            !.jobs = IF jobs_deleted
                     THEN {j \in cl.jobs :
                             ~(j.ns = namespace /\
                               j.instance = ReleaseName(namespace, module_name))}
                     ELSE cl.jobs]

\* faulty variant: the first pipeline that raises ends the cleanup
Attempted_abort(cmds, cmode) ==
    IF \E i \in 1..Len(cmds) : ModeAt(cmode, i) = "raise"
    THEN SubSeq(cmds, 1, CHOOSE i \in 1..Len(cmds) :
                            /\ ModeAt(cmode, i) = "raise"
                            /\ \A j \in 1..(i - 1) : ModeAt(cmode, j) # "raise")
    ELSE cmds

\* every subprocess.run of the cleanup has its own try/except: all are attempted
Attempted(cmds, cmode) == cmds

\* faulty variant: the release record goes, its workloads stay
RemoveRelease_orphans(cl, namespace, module_name) ==
    [cl EXCEPT !.releases = cl.releases \ {ReleaseName(namespace, module_name)}]

\* what helm uninstall removes: the release and its chart-managed workloads
RemoveRelease(cl, namespace, module_name) ==
    LET chart == ChartWorkloads(namespace, module_name)
    IN  [cl EXCEPT !.workloads = [w \in (DOMAIN cl.workloads) \ chart |-> cl.workloads[w]],
                   !.releases = cl.releases \ {ReleaseName(namespace, module_name)}]

\* result.stderr of a helm uninstall that exits non-zero
UninstallStderr(cl, release_name) ==
    IF release_name \notin cl.releases THEN "release: not found" ELSE "stderr"

\* faulty variant: the cleanup runs although the uninstall failed
AfterFailedUninstall_cleans(cl, module_name, namespace, cleanup_pvcs, cleanup_all) ==
    AfterCleanup(cl, module_name, namespace, cleanup_pvcs, cleanup_all, "ok")

\* a non-zero exit or a timeout of helm uninstall raises before any cleanup
AfterFailedUninstall(cl, module_name, namespace, cleanup_pvcs, cleanup_all) == cl

undeploy_module_with_helm(cl, module_name, namespace, cleanup_pvcs, cleanup_all, helm, cmode) ==
    LET release_name == ReleaseName(namespace, module_name)
        helm_cmd == Cmd("helm uninstall", namespace, "release", release_name)
        removed == RemoveRelease(cl, namespace, module_name)
        failed == AfterFailedUninstall(cl, module_name, namespace,
                                       cleanup_pvcs, cleanup_all)
    IN  IF helm = "timeout"
        THEN [cl |-> failed, commands |-> HelmRuns(helm_cmd, helm), result |-> <<>>,
              error |-> <<"408", "Module undeployment timed out">>]
        ELSE IF helm = "error" \/ release_name \notin cl.releases
        THEN [cl |-> failed, commands |-> HelmRuns(helm_cmd, helm), result |-> <<>>,
              error |-> <<"Undeployment failed", "500", "Module undeployment failed",
                          UninstallStderr(cl, release_name)>>]
        ELSE [cl |-> AfterCleanup(removed, module_name, namespace,
                                  cleanup_pvcs, cleanup_all, cmode),
              commands |-> HelmRuns(helm_cmd, helm)
                  \o Attempted(CleanupCommands(module_name, namespace,
                                               cleanup_pvcs, cleanup_all), cmode),
              result |-> <<[success |-> TRUE, release_name |-> release_name,
                            namespace |-> namespace, output |-> "stdout",
                            cleanup_performed |->
                                CleanupResults(removed, module_name, namespace,
                                               cleanup_pvcs, cleanup_all, cmode),
                            pvcs_cleaned |-> cleanup_pvcs,
                            complete_cleanup |-> cleanup_all]>>,
              error |-> <<>>]

(***************************************************************************)
(* Lifecycle Controller: the HTTP handlers                                 *)
(***************************************************************************)
\* JSON body of a 200 response, or the HTTPException of an error response
Response(success, code, detail) ==
    [success |-> success, code |-> code, detail |-> detail, status |-> <<>>,
     deployment |-> <<>>, undeploy |-> <<>>, cleanup_warnings |-> <<>>,
     resource_cleanup_performed |-> <<>>, data |-> <<>>]

\* what a handler did: the status records it read (and under which condition
\* of the infrastructure, q), the commands it issued (in order), how often it
\* entered the install, how the release manager's call ended (helm), the
\* steps it went through (steps), the response it returned, and the handler whose trace was still at hand when
\* the request came in (follows)
Trace(op, tenant_name, module_name, environment) ==
    [op |-> op, tenant |-> tenant_name, module |-> module_name,
     environment |-> environment, cleanup_pvcs |-> <<>>, cleanup_all |-> <<>>,
     q |-> <<>>, pre |-> <<>>, post |-> <<>>, commands |-> <<>>, install_calls |-> 0,
     helm |-> "none", cleanup |-> "none", auth |-> <<>>, steps |-> <<>>,
     response |-> Response(TRUE, 200, <<>>), follows |-> "none"]

NoCall == Trace("none", <<>>, <<>>, <<>>)

\* faulty variant: the running check is lost, every enable redeploys
AlreadyRunning_never(deployment_status) == FALSE

\* faulty variant: any deployed module counts as running
AlreadyRunning_deployed(deployment_status) == deployment_status.deployed

\* if deployment_status["deployed"]: if deployment_status["status"] == "running"
AlreadyRunning(deployment_status) ==
    deployment_status.deployed /\ deployment_status.status = "running"

\* faulty variant: the not-deployed check is lost, every disable uninstalls
AlreadyNotDeployed_never(deployment_status) == FALSE

\* if not deployment_status["deployed"]
AlreadyNotDeployed(deployment_status) == ~deployment_status.deployed

\* faulty variant: the status is read again without the settle wait
Settled_nowait(steps) == steps \o <<"query">>

\* time.sleep(...); final_status = is_module_deployed(namespace, module_name)
Settled(steps) == steps \o <<"wait", "query">>

\* faulty variant: the handler reports its own message only
Wrap_dropped(context, error) == <<context>>

\* detail=f"{context}: {str(e)}"
Wrap(context, error) == <<context>> \o error

\* [cl, trace] of POST /api/v1/tenants/{tenant_name}/modules/{module_name}/enable
enable_module(cl, tenant_name, module_name, environment, tier, q1, q2, helm, d, r, pf) ==
    LET t0 == Trace("enable", tenant_name, module_name, environment)
        namespace == Namespace(tenant_name, environment)
        deployment_status == is_module_deployed(cl.workloads, namespace, module_name, q1)
        t1 == [t0 EXCEPT !.pre = <<deployment_status>>, !.q = <<q1>>,
                         !.steps = <<"query">>]
        deployment == deploy_module_with_helm(cl, module_name, namespace, environment,
                                              tier, helm, d, r, pf)
        t2 == [t1 EXCEPT !.commands = deployment.commands, !.install_calls = 1,
                         !.helm = helm, !.steps = <<"query", "install">>]
        final_status == is_module_deployed(deployment.cl.workloads, namespace,
                                           module_name, q2)
    IN  IF module_name \notin CatalogModules
        THEN [cl |-> cl,
              trace |-> [t0 EXCEPT !.response =
                  Response(FALSE, 500, Wrap("Failed to enable module",
                                            <<"404", "not found in definitions">>))]]
        ELSE IF AlreadyRunning(deployment_status)
        THEN [cl |-> cl,
              trace |-> [t1 EXCEPT !.response =
                  [Response(TRUE, 200, <<>>) EXCEPT !.status = <<deployment_status>>]]]
        ELSE IF deployment.error # <<>>
        THEN [cl |-> deployment.cl,
              trace |-> [t2 EXCEPT !.response =
                  Response(FALSE, 500, Wrap("Failed to enable module", deployment.error))]]
        ELSE [cl |-> deployment.cl,
              trace |-> [t2 EXCEPT !.post = <<final_status>>,
                                   !.steps = Settled(t2.steps),
                                   !.response =
                  [Response(TRUE, 200, <<>>) EXCEPT !.deployment = deployment.result,
                                                    !.status = <<final_status>>]]]

\* [cl, trace] of POST /api/v1/tenants/{tenant_name}/modules/{module_name}/disable
disable_module(cl, tenant_name, module_name, environment, cleanup_pvcs, cleanup_all, q1, q2, helm, cmode) ==
    LET t0 == [Trace("disable", tenant_name, module_name, environment)
                  EXCEPT !.cleanup_pvcs = <<cleanup_pvcs>>, !.cleanup_all = <<cleanup_all>>]
        namespace == Namespace(tenant_name, environment)
        deployment_status == is_module_deployed(cl.workloads, namespace, module_name, q1)
        t1 == [t0 EXCEPT !.pre = <<deployment_status>>, !.q = <<q1>>,
                         !.steps = <<"query">>]
        cleanup_warning ==
            (IF cleanup_pvcs THEN <<"PVCs will be deleted (data loss!)">> ELSE <<>>)
            \o (IF cleanup_all THEN <<"All resources will be deleted">> ELSE <<>>)
        undeploy == undeploy_module_with_helm(cl, module_name, namespace,
                                              cleanup_pvcs, cleanup_all, helm, cmode)
        t2 == [t1 EXCEPT !.commands = undeploy.commands, !.helm = helm,
                         !.cleanup = IF undeploy.error = <<>> THEN cmode ELSE "none",
                         !.steps = <<"query", "uninstall">>]
        final_status == is_module_deployed(undeploy.cl.workloads, namespace,
                                           module_name, q2)
    IN  IF AlreadyNotDeployed(deployment_status)
        THEN [cl |-> cl, trace |-> t1]
        ELSE IF undeploy.error # <<>>
        THEN [cl |-> undeploy.cl,
              trace |-> [t2 EXCEPT !.response =
                  Response(FALSE, 500, Wrap("Failed to disable module", undeploy.error))]]
        ELSE [cl |-> undeploy.cl,
              trace |-> [t2 EXCEPT !.post = <<final_status>>,
                                   !.steps = Settled(t2.steps),
                                   !.response =
                  [Response(TRUE, 200, <<>>) EXCEPT
                      !.undeploy = undeploy.result,
                      !.status = <<final_status>>,
                      !.cleanup_warnings = <<cleanup_warning>>,
                      !.resource_cleanup_performed = <<cleanup_pvcs \/ cleanup_all>>]]]

\* trace of GET /api/v1/tenants/{tenant_name}/modules/{module_name}/status
get_module_deployment_status(cl, tenant_name, module_name, environment, q1) ==
    LET namespace == Namespace(tenant_name, environment)
        deployment_status == is_module_deployed(cl.workloads, namespace, module_name, q1)
    IN  [Trace("status", tenant_name, module_name, environment) EXCEPT
            !.pre = <<deployment_status>>, !.q = <<q1>>,
            !.response = [Response(TRUE, 200, <<>>) EXCEPT !.status = <<deployment_status>>]]

(***************************************************************************)
(* Listing endpoints                                                       *)
(***************************************************************************)
\* namespaces the platform has created: they carry the spanda.ai/tenant label
\* (a namespace made by helm's --create-namespace does not)
PlatformNamespaces == {Namespace(<<"acme">>, <<"dev">>)}

\* the Authorization header of a request: absent, a bad token, a valid token
Tokens == {"none", "invalid", "valid"}

\* module name that get_deployed_modules reads off a workload's labels,
\* <<>> when no label names one
ModuleOfLabels(labels) ==
    IF \E l \in labels : l[1] = "spanda.ai/module"
    THEN <<(CHOOSE l \in labels : l[1] = "spanda.ai/module")[2]>>
    ELSE IF \E l \in labels : l[1] = "spandaModule"
    THEN <<(CHOOSE l \in labels : l[1] = "spandaModule")[2]>>
    ELSE IF \E l \in labels : l[1] = "app.kubernetes.io/name"
    THEN LET app_name == (CHOOSE l \in labels : l[1] = "app.kubernetes.io/name")[2]
         IN  IF app_name \in {<<"vault">>, Vault, <<"keyholding">>, <<"primary">>}
             THEN <<Vault>> ELSE <<app_name>>
    ELSE <<>>

\* "running" if ready > 0 and ready == total else "failed" if ready == 0 else "pending"
ListingStatus(total_replicas, ready_replicas) ==
    IF ready_replicas > 0 /\ ready_replicas = total_replicas THEN "running"
    ELSE IF ready_replicas = 0 THEN "failed"
    ELSE "pending"

\* one entry of the modules list, for the workload w
ModuleEntry(wl, w) ==
    [name |-> ModuleOfLabels(Labels(w))[1], type |-> w.kind,
     status |-> ListingStatus(StatusReplicas(wl[w]), wl[w].ready),
     replicas |-> StatusReplicas(wl[w]), ready_replicas |-> wl[w].ready]

\* workloads of one kind in the namespace that name a module, in list order
NamedWorkloads(wl, namespace, kind) ==
    SetToSeq({w \in DOMAIN wl : /\ w.ns = namespace
                                /\ w.kind = kind
                                /\ ModuleOfLabels(Labels(w)) # <<>>})

\* "Combine status - if either is running, mark as running"
Combine(existing_status, status) ==
    IF existing_status = "running" \/ status = "running" THEN "running"
    ELSE existing_status

\* the StatefulSet loop: merge into the first entry of that name, or append
RECURSIVE MergeStatefulSets(_, _, _)
MergeStatefulSets(modules, wl, sts) ==
    IF sts = <<>> THEN modules
    ELSE LET e == ModuleEntry(wl, Head(sts))
             same == {k \in 1..Len(modules) : modules[k].name = e.name}
             merged ==
                 IF same = {} THEN Append(modules, e)
                 ELSE LET k == CHOOSE x \in same : \A y \in same : x <= y
                      IN  [modules EXCEPT
                              ![k].status = Combine(modules[k].status, e.status),
                              ![k].replicas = modules[k].replicas + e.replicas,
                              ![k].ready_replicas = modules[k].ready_replicas
                                                    + e.ready_replicas]
         IN  MergeStatefulSets(merged, wl, Tail(sts))

get_deployed_modules(wl, namespace) ==
    LET deployments == NamedWorkloads(wl, namespace, "deployment")
        statefulsets == NamedWorkloads(wl, namespace, "statefulset")
    IN  MergeStatefulSets([i \in 1..Len(deployments) |-> ModuleEntry(wl, deployments[i])],
                          wl, statefulsets)

\* trace of GET /api/v1/modules: the handler takes no credentials
list_modules(token) ==
    [Trace("list_modules", <<>>, <<>>, <<>>) EXCEPT
        !.auth = <<token>>,
        !.response = [Response(TRUE, 200, <<>>) EXCEPT
                         !.data = SetToSeq({[name |-> m] : m \in CatalogModules})]]

\* trace of GET /api/v1/tenants: the handler takes no credentials
list_tenants(cl, token) ==
    [Trace("list_tenants", <<>>, <<>>, <<>>) EXCEPT
        !.auth = <<token>>,
        !.response = [Response(TRUE, 200, <<>>) EXCEPT
                         !.data = SetToSeq({[namespace |-> n,
                                             deployed_modules |->
                                                 get_deployed_modules(cl.workloads, n)] :
                                            n \in cl.namespaces \cap PlatformNamespaces})]]

(***************************************************************************)
(* Module-definition cache (get_module_definitions)                        *)
(***************************************************************************)
\* what module-definitions.yaml can hold: two catalogues and a text that
\* yaml.safe_load rejects
FileContents == {"catalog", "spark-only", "invalid"}

Mtimes == 1..MaxMtime

\* yaml.safe_load of a well-formed file
safe_load(content) ==
    [modules |-> IF content = "catalog" THEN CatalogModules ELSE {Spark},
     resource_tiers |-> Tiers]

\* the minimal default configuration returned when the file is missing
DefaultDefinitions ==
    [modules |-> {}, resource_tiers |-> {"bronze", "standard", "premium"}]

load_module_definitions(file) ==
    IF ~file.exists THEN [raised |-> FALSE, value |-> <<DefaultDefinitions>>]
    ELSE IF file.content = "invalid" THEN [raised |-> TRUE, value |-> <<>>]
    ELSE [raised |-> FALSE, value |-> <<safe_load(file.content)>>]

\* the globals after the call, and what the call returns or raises
get_module_definitions(file, cached, modified) ==
    LET reload == load_module_definitions(file)
        kept == [module_definitions |-> cached, last_modified |-> modified,
                 raised |-> FALSE, value |-> cached]
    IN  IF file.exists
        THEN IF cached = <<>> \/ <<file.mtime>> # modified
             THEN IF reload.raised
                  THEN [kept EXCEPT !.raised = TRUE, !.value = <<>>]
                  ELSE [module_definitions |-> reload.value,
                        last_modified |-> <<file.mtime>>,
                        raised |-> FALSE, value |-> reload.value]
             ELSE kept
        ELSE IF cached = <<>>
             THEN [kept EXCEPT !.module_definitions = reload.value,
                               !.value = reload.value]
             ELSE kept

NoResult == [kind |-> "none", value |-> <<>>]

(***************************************************************************)
(* CLI client session (src/pkg/api_client.py)                              *)
(***************************************************************************)
\* config.get_auth_headers(): no stored token, or the token of an earlier login
StoredTokens == {<<>>, <<"stored">>}

\* tokens the backend issues
IssuedTokens == {"t1", "t2"}

Bearer(token) == <<"Bearer", token>>

\* SpandaAPIClient.__init__: the default headers, and Authorization if stored
SessionHeaders(stored) ==
    [ContentType |-> "application/json",
     Authorization |-> IF stored = <<>> THEN <<>> ELSE Bearer(stored[1])]

\* what POST /api/v1/auth/login comes to: _make_request raises, or the JSON
\* body carries access_token or does not
LoginAnswers ==
    {[kind |-> "raise", access_token |-> <<>>], [kind |-> "json", access_token |-> <<>>]}
    \cup {[kind |-> "json", access_token |-> <<t>>] : t \in IssuedTokens}

\* the names bound in login() when its finally clause runs
LoginLocals(answer) ==
    {"self", "username", "password", "endpoint", "payload", "old_headers"}
    \cup (IF answer.kind = "json" THEN {"response", "result"} ELSE {})

\* 'access_token' not in locals() or not locals().get('result', {}).get('access_token')
RestoresHeaders(answer) ==
    \/ "access_token" \notin LoginLocals(answer)
    \/ ~(answer.kind = "json" /\ answer.access_token # <<>>)

login(headers, answer) ==
    LET old_headers == headers
        stripped == [headers EXCEPT !.Authorization = <<>>]
        updated == IF answer.kind = "json" /\ answer.access_token # <<>>
                   THEN [stripped EXCEPT !.Authorization = Bearer(answer.access_token[1])]
                   ELSE stripped
    IN  [headers |-> IF RestoresHeaders(answer) THEN old_headers ELSE updated,
         kind |-> IF answer.kind = "json" THEN "returned" ELSE "raised",
         access_token |-> answer.access_token,
         old_headers |-> old_headers]

NoLogin == [kind |-> "none", access_token |-> <<>>, old_headers |-> SessionHeaders(<<>>)]

(***************************************************************************)
(* CLI module discovery (src/pkg/module_detector.py)                       *)
(***************************************************************************)
\* keys of MODULE_PATTERNS
PatternModules == {<<"minio">>, Spark}

ModuleInfo(name, version) ==
    [name |-> name, version |-> version, category |-> "platform"]

\* the default list: one entry per MODULE_PATTERNS key, version "latest"
DefaultModules == {ModuleInfo(m, "latest") : m \in PatternModules}

\* what one pass over the charts directory meets: no directory at all, an
\* error of iterdir(), or module directories whose Chart.yaml gives a version
ScanOutcomes ==
    {[kind |-> "nodir", dirs |-> {}], [kind |-> "error", dirs |-> {}]}
    \cup {[kind |-> "listed", dirs |-> D] : D \in {{}, {Spark}, PatternModules, {Ghost}}}

Scanned(dirs) == {ModuleInfo(m, "1.2.0") : m \in dirs \cap PatternModules}

ScanRuns == [1..RecursionLimit -> ScanOutcomes]

\* frame `depth` of get_available_modules; scans[i] is what frame i meets
RECURSIVE get_available_modules(_, _)
get_available_modules(scans, depth) ==
    IF depth > RecursionLimit
    THEN [kind |-> "raised", result |-> {}, failed |-> TRUE, frames |-> RecursionLimit]
    ELSE LET scan == scans[depth]
         IN  IF scan.kind = "nodir"
             THEN [kind |-> "returned", result |-> DefaultModules,
                   failed |-> depth > 1, frames |-> depth]
             ELSE IF scan.kind = "error"
             THEN get_available_modules(scans, depth + 1)
             ELSE [kind |-> "returned", result |-> Scanned(scan.dirs),
                   failed |-> depth > 1, frames |-> depth]

NoDiscovery == [kind |-> "none", result |-> {}, failed |-> FALSE, frames |-> 0]

(***************************************************************************)
(* Actions                                                                 *)
(***************************************************************************)
InitHost ==
    /\ config_file = [exists |-> TRUE, mtime |-> 1, content |-> "catalog"]
    /\ module_definitions = <<>>
    /\ last_modified = <<>>
    /\ loaded = NoResult
    /\ session = SessionHeaders(<<>>)
    /\ logged = NoLogin
    /\ discovery = NoDiscovery

Init ==
    /\ workloads = <<>>
    /\ releases = {}
    /\ namespaces = PlatformNamespaces
    /\ pvcs = {}
    /\ jobs = {}
    /\ tenant \in Tenants
    /\ call = NoCall
    /\ requests = <<>>
    /\ InitHost

Finish(out) ==
    /\ workloads' = out.cl.workloads
    /\ releases' = out.cl.releases
    /\ namespaces' = out.cl.namespaces
    /\ pvcs' = out.cl.pvcs
    /\ jobs' = out.cl.jobs
    /\ call' = [out.trace EXCEPT !.follows = call.op]
    /\ UNCHANGED <<tenant, host>>

\* the handler skips the install: unknown module, or pre-check running
SkipsInstall(module_name, deployment_status) ==
    \/ module_name \notin CatalogModules
    \/ AlreadyRunning(deployment_status)

\* a client sends the same enable again right after an "already running" answer
IsRepeat(module_name, environment) ==
    /\ call.op = "enable"
    /\ call.module = module_name
    /\ call.environment = environment
    /\ call.response.success
    /\ call.install_calls = 0

Enable ==
    \E module_name \in ModuleNames, environment \in Environments, tier \in Tiers,
       q1 \in QueryModes :
        /\ call = NoCall \/ IsRepeat(module_name, environment)
        /\ LET pre == is_module_deployed(workloads, Namespace(tenant, environment),
                                         module_name, q1)
               skips == SkipsInstall(module_name, pre)
           IN  \E helm \in IF skips THEN {"ok"} ELSE HelmInstallOutcomes :
               \E r \in IF ~skips /\ helm \in {"ok", "timeout"} THEN 0..ChartReplicas
                        ELSE {0} :
               \E pf \in IF ~skips /\ helm # "nochart" THEN PreflightModes ELSE {"ok"} :
                   /\ Finish(enable_module(Cluster, tenant, module_name, environment,
                                           tier, q1, q1, helm, ChartReplicas, r, pf))
                   /\ UNCHANGED requests

Disable ==
    /\ call = NoCall
    /\ \E module_name \in ModuleNames, environment \in Environments,
          cleanup_pvcs \in BOOLEAN, cleanup_all \in BOOLEAN, q1 \in QueryModes :
        LET namespace == Namespace(tenant, environment)
            pre == is_module_deployed(workloads, namespace, module_name, q1)
            installed == ReleaseName(namespace, module_name) \in releases
            proceeds == ~AlreadyNotDeployed(pre) /\ installed
        IN  \E helm \in IF proceeds THEN HelmUninstallOutcomes ELSE {"error"} :
            \E cmode \in IF proceeds /\ helm = "ok" THEN CleanupModes ELSE {"ok"} :
                /\ Finish(disable_module(Cluster, tenant, module_name, environment,
                                         cleanup_pvcs, cleanup_all, q1, q1, helm, cmode))
                /\ UNCHANGED requests

GetStatus ==
    /\ call.op \in {"none", "status"}
    /\ \E module_name \in ModuleNames, environment \in Environments, q1 \in QueryModes :
        /\ Finish([cl |-> Cluster,
                   trace |-> get_module_deployment_status(Cluster, tenant, module_name,
                                                          environment, q1)])
        /\ UNCHANGED requests

\* the cluster moves on its own: pods become ready or fail, a workload is rescaled
Drift ==
    /\ call = NoCall
    /\ \E w \in DOMAIN workloads, rs \in ReplicaStates :
        /\ rs # workloads[w]
        /\ workloads' = [workloads EXCEPT ![w] = rs]
    /\ UNCHANGED <<releases, namespaces, pvcs, jobs, tenant, call, requests, host>>

\* time passes and the trace of the last request is dropped
Idle ==
    /\ call # NoCall
    /\ call' = NoCall
    /\ UNCHANGED <<workloads, releases, namespaces, pvcs, jobs, tenant, requests, host>>

Next == Enable \/ Disable \/ GetStatus \/ Drift \/ Idle

Spec == Init /\ [][Next]_vars

(***************************************************************************)
(* Concurrent enable requests on the server                                *)
(*                                                                         *)
(* The handlers are coroutines (async def) that never await: the status    *)
(* queries, subprocess.run(helm ...) and time.sleep block the event loop   *)
(* of the one uvicorn process until the handler returns.  A request is     *)
(* "received" until the loop runs its handler, "installing" while the      *)
(* handler waits in subprocess.run for helm, and "done" afterwards.        *)
(***************************************************************************)
Request(module_name, environment) ==
    [module |-> module_name, environment |-> environment, state |-> "received"]

\* a client's POST .../enable arrives and is queued on the loop
Receive ==
    /\ Len(requests) < MaxRequests
    /\ \E module_name \in CatalogModules, environment \in Environments :
        requests' = Append(requests, Request(module_name, environment))
    /\ UNCHANGED <<workloads, releases, namespaces, pvcs, jobs, tenant, call, host>>

\* faulty variant: handlers run on threads, any number at a time
LoopIdle_threaded(reqs) == TRUE

\* the loop takes the next coroutine only when the running one has returned
LoopIdle(reqs) == \A i \in DOMAIN reqs : reqs[i].state # "installing"

\* the handler of request i runs and returns without an install
ReturnEarly(i) ==
    /\ requests[i].state = "received"
    /\ LoopIdle(requests)
    /\ \E tier \in Tiers, q1 \in QueryModes :
        LET r == requests[i]
            pre == is_module_deployed(workloads, Namespace(tenant, r.environment),
                                      r.module, q1)
        IN  /\ SkipsInstall(r.module, pre)
            /\ Finish(enable_module(Cluster, tenant, r.module, r.environment, tier,
                                    q1, q1, "ok", ChartReplicas, 0, "ok"))
    /\ requests' = [requests EXCEPT ![i].state = "done"]

\* the handler of request i passes the pre-check and calls subprocess.run(helm_cmd)
BeginInstall(i) ==
    /\ requests[i].state = "received"
    /\ LoopIdle(requests)
    /\ \E q1 \in QueryModes :
        LET r == requests[i]
        IN  ~SkipsInstall(r.module,
                          is_module_deployed(workloads, Namespace(tenant, r.environment),
                                             r.module, q1))
    /\ requests' = [requests EXCEPT ![i].state = "installing"]
    /\ UNCHANGED <<workloads, releases, namespaces, pvcs, jobs, tenant, call, host>>

\* helm ends (or times out) and the handler of request i returns; the
\* pre-flight deletion, which no request state depends on, has succeeded, and
\* the installed workload has none or all of its replicas ready
EndInstall(i) ==
    /\ requests[i].state = "installing"
    /\ \E tier \in Tiers, q1 \in QueryModes, helm \in HelmInstallOutcomes :
        \E r \in IF helm \in {"ok", "timeout"} THEN {0, ChartReplicas} ELSE {0} :
            LET req == requests[i]
            IN  /\ ~SkipsInstall(req.module,
                                 is_module_deployed(workloads,
                                                    Namespace(tenant, req.environment),
                                                    req.module, q1))
                /\ Finish(enable_module(Cluster, tenant, req.module, req.environment,
                                        tier, q1, q1, helm, ChartReplicas, r, "ok"))
    /\ requests' = [requests EXCEPT ![i].state = "done"]

NextConc ==
    \/ Receive
    \/ \E i \in DOMAIN requests : ReturnEarly(i)
    \/ \E i \in DOMAIN requests : BeginInstall(i)
    \/ \E i \in DOMAIN requests : EndInstall(i)

SpecConc == Init /\ [][NextConc]_vars

(***************************************************************************)
(* The read-only endpoints over arbitrary data-lake workloads              *)
(***************************************************************************)
InitList ==
    /\ workloads \in UNION {[S -> ReplicaStates] :
                               S \in SUBSET ListingWorkloads(Namespace(<<"acme">>, <<"dev">>))}
    /\ releases = {}
    /\ namespaces = PlatformNamespaces
    /\ pvcs = {}
    /\ jobs = {}
    /\ tenant \in Tenants
    /\ call = NoCall
    /\ requests = <<>>
    /\ InitHost

ListModules ==
    /\ call = NoCall
    /\ \E token \in Tokens : Finish([cl |-> Cluster, trace |-> list_modules(token)])
    /\ UNCHANGED requests

ListTenants ==
    /\ call = NoCall
    /\ \E token \in Tokens :
        Finish([cl |-> Cluster, trace |-> list_tenants(Cluster, token)])
    /\ UNCHANGED requests

NextList == ListModules \/ ListTenants \/ GetStatus \/ Idle

SpecList == InitList /\ [][NextList]_vars

(***************************************************************************)
(* A second tenant's namespace is populated beside the one that is served  *)
(***************************************************************************)
\* the namespaces of the tenants other than `tenant_name`
OtherNamespaces(tenant_name) ==
    {Namespace(t, e) : t \in Tenants \ {tenant_name}, e \in Environments}

\* both catalogue modules installed and running in namespace n
Installed(n) ==
    [workloads |-> [w \in UNION {ChartWorkloads(n, m) : m \in CatalogModules} |->
                       [desired |-> ChartReplicas, ready |-> ChartReplicas]],
     releases |-> {ReleaseName(n, m) : m \in CatalogModules},
     pvcs |-> UNION {ChartPvcs(n, m) : m \in CatalogModules},
     jobs |-> UNION {ChartJobs(n, m) : m \in CatalogModules}]

InitScope ==
    /\ tenant \in Tenants
    /\ \E n \in OtherNamespaces(tenant) :
        /\ workloads = Installed(n).workloads
        /\ releases = Installed(n).releases
        /\ pvcs = Installed(n).pvcs
        /\ jobs = Installed(n).jobs
        /\ namespaces = PlatformNamespaces \cup {n}
    /\ call = NoCall
    /\ requests = <<>>
    /\ InitHost

NextScope == Enable \/ Disable \/ GetStatus \/ Idle

SpecScope == InitScope /\ [][NextScope]_vars

(***************************************************************************)
(* The definitions file changes under the running backend                  *)
(***************************************************************************)
\* an endpoint calls get_module_definitions()
GetModuleDefinitions ==
    /\ LET out == get_module_definitions(config_file, module_definitions, last_modified)
       IN  /\ module_definitions' = out.module_definitions
           /\ last_modified' = out.last_modified
           /\ loaded' = IF out.raised THEN [kind |-> "error", value |-> <<>>]
                        ELSE [kind |-> "definitions", value |-> out.value]
    /\ UNCHANGED <<workloads, releases, namespaces, pvcs, jobs, tenant, call, requests,
                   config_file, session, logged, discovery>>

\* the file is written (or written anew after its removal); its mtime changes
WriteFile ==
    /\ \E content \in FileContents, mtime \in Mtimes \ {config_file.mtime} :
        config_file' = [exists |-> TRUE, mtime |-> mtime, content |-> content]
    /\ loaded' = NoResult
    /\ UNCHANGED <<workloads, releases, namespaces, pvcs, jobs, tenant, call, requests,
                   module_definitions, last_modified, session, logged, discovery>>

RemoveFile ==
    /\ config_file.exists
    /\ config_file' = [config_file EXCEPT !.exists = FALSE]
    /\ loaded' = NoResult
    /\ UNCHANGED <<workloads, releases, namespaces, pvcs, jobs, tenant, call, requests,
                   module_definitions, last_modified, session, logged, discovery>>

NextDefs == GetModuleDefinitions \/ WriteFile \/ RemoveFile

SpecDefs == Init /\ [][NextDefs]_vars

(***************************************************************************)
(* The CLI process                                                         *)
(***************************************************************************)
InitCli ==
    /\ workloads = <<>>
    /\ releases = {}
    /\ namespaces = PlatformNamespaces
    /\ pvcs = {}
    /\ jobs = {}
    /\ tenant \in Tenants
    /\ call = NoCall
    /\ requests = <<>>
    /\ config_file = [exists |-> TRUE, mtime |-> 1, content |-> "catalog"]
    /\ module_definitions = <<>>
    /\ last_modified = <<>>
    /\ loaded = NoResult
    /\ \E stored \in StoredTokens : session = SessionHeaders(stored)
    /\ logged = NoLogin
    /\ discovery = NoDiscovery

Login ==
    /\ \E answer \in LoginAnswers :
        LET out == login(session, answer)
        IN  /\ session' = out.headers
            /\ logged' = [kind |-> out.kind, access_token |-> out.access_token,
                          old_headers |-> out.old_headers]
    /\ UNCHANGED <<workloads, releases, namespaces, pvcs, jobs, tenant, call, requests,
                   config_file, module_definitions, last_modified, loaded, discovery>>

GetAvailableModules ==
    /\ \E scans \in ScanRuns : discovery' = get_available_modules(scans, 1)
    /\ UNCHANGED <<workloads, releases, namespaces, pvcs, jobs, tenant, call, requests,
                   config_file, module_definitions, last_modified, loaded, session,
                   logged>>

NextCli == Login \/ GetAvailableModules

SpecCli == InitCli /\ [][NextCli]_vars

TypeOK ==
    /\ DOMAIN workloads \subseteq WorkloadIds
    /\ \A w \in DOMAIN workloads : workloads[w] \in ReplicaStates
    /\ tenant \in Tenants

(***************************************************************************)
(* Properties                                                              *)
(***************************************************************************)
HelmInstalls(commands) ==
    SelectSeq(commands, LAMBDA c : c.verb = "helm upgrade --install")

PreStatus(trace) == trace.pre[1].status

\* C1 - Idempotent enable: an Enable whose pre-check status is Running issues
\* no install and no pre-flight cleanup, leaves the cluster as it is and
\* returns success with the pre-check status; when it directly follows an
\* Enable of the same module that also saw Running, neither of the two has
\* issued an install and both return the same status.
C1_IdempotentEnable ==
    [][(call'.op = "enable" /\ call'.pre # <<>> /\ PreStatus(call') = "running") =>
          /\ call'.commands = <<>>
          /\ call'.install_calls = 0
          /\ call'.response.success
          /\ call'.response.status = call'.pre
          /\ UNCHANGED <<workloads, releases, namespaces, pvcs, jobs>>
          /\ (call.op = "enable" /\ call.pre # <<>> /\ PreStatus(call) = "running"
              /\ call.module = call'.module /\ call.environment = call'.environment) =>
                /\ HelmInstalls(call.commands) = <<>>
                /\ call.response.success
                /\ call'.response.status[1].status = call.response.status[1].status
      ]_vars

\* a second Enable in immediate succession has met a Running module
C1_Witness ==
    /\ call.op = "enable"
    /\ call.follows = "enable"
    /\ call.pre # <<>>
    /\ PreStatus(call) = "running"
    /\ call.response.success

\* C2 - Idempotent disable: a Disable whose pre-check status is NotDeployed
\* issues no release-manager call and no cleanup command and returns success.
C2_IdempotentDisable ==
    (call.op = "disable" /\ call.pre # <<>> /\ PreStatus(call) = "not_deployed") =>
        /\ call.commands = <<>>
        /\ call.response.success
        /\ call.response.code = 200

C2_Witness ==
    /\ call.op = "disable"
    /\ call.pre # <<>>
    /\ PreStatus(call) = "not_deployed"
    /\ call.response.success

\* the enable failed because the module has no deployment files (chart)
ChartMissing(trace) ==
    \E i \in 1..Len(trace.response.detail) :
        trace.response.detail[i] = "Module deployment files not found"

\* C3 - Fresh enable: Enable of a catalog module (whose chart is available)
\* that has no workload of its own in the namespace calls the release
\* manager's install exactly once, with releaseName {tenant}-{environment}-{M},
\* whatever workloads of other modules the namespace holds.
C3_FreshEnableInstallsOnce ==
    [][(/\ call'.op = "enable"
        /\ call'.module \in CatalogModules
        /\ ~ChartMissing(call')
        /\ ChartWorkloads(Namespace(call'.tenant, call'.environment), call'.module)
               \cap DOMAIN workloads = {})
       => LET installs == HelmInstalls(call'.commands)
          IN  /\ Len(installs) = 1
              /\ installs[1].target =
                    ReleaseName(Namespace(call'.tenant, call'.environment), call'.module)
      ]_vars

\* C4 - Enable on a non-Running pair always installs: for every pre-check
\* status other than Running (Degraded, Failed, NotDeployed, Unknown) Enable
\* of a catalog module enters the install, issues the upgrade-or-install when
\* the chart is available, and fails only when the install itself fails.
C4_EnableNonRunningInstalls ==
    (/\ call.op = "enable"
     /\ call.module \in CatalogModules
     /\ call.pre # <<>>
     /\ PreStatus(call) # "running")
    => /\ call.install_calls = 1
       /\ ~ChartMissing(call) => Len(HelmInstalls(call.commands)) = 1
       /\ \/ call.response.success
          \/ /\ Len(call.response.detail) >= 2
             /\ call.response.detail[2] \in {"Deployment failed", "408"}

\* an Enable that met a Degraded module has issued the upgrade-or-install
C4_Witness ==
    /\ call.op = "enable"
    /\ call.pre # <<>>
    /\ PreStatus(call) = "degraded"
    /\ Len(HelmInstalls(call.commands)) = 1
    /\ call.response.success

StatusRecords(trace) == Range(trace.pre) \cup Range(trace.post)

\* workloads of the namespace that the kubectl path matches for the module
MatchedKubectl(wl, namespace, module_name) ==
    LET selectors == Range(LabelSelectors(namespace, module_name))
    IN  {w \in DOMAIN wl :
            /\ w.ns = namespace
            /\ \/ /\ w.kind = "statefulset"
                  /\ selectors \cap Labels(w) # {}
                  /\ module_name = Vault => Contains(w.name, <<"vault">>)
               \/ /\ w.kind = "deployment"
                  /\ \/ selectors \cap Labels(w) # {}
                     \/ /\ LComponent(DataLake) \in Labels(w)
                        /\ Contains(w.name, module_name)}

\* workloads of the namespace that the API fallback matches for the module
MatchedApi(wl, namespace, module_name) ==
    LET possible == Range(module_label_mapping(module_name))
        OfKind(kind) == {w \in DOMAIN wl : w.ns = namespace /\ w.kind = kind}
    IN  {w \in DOMAIN wl :
            /\ w.ns = namespace
            /\ \E label \in possible :
                \/ LModule(label) \in Labels(w)
                \/ /\ LService(module_name) \in Labels(w)
                   /\ \A x \in OfKind(w.kind) : LModule(label) \notin Labels(x)}

\* sum of f[x] over the elements x of S
RECURSIVE SumOver(_, _)
SumOver(S, f) ==
    IF S = {} THEN 0
    ELSE LET x == CHOOSE y \in S : TRUE IN f[x] + SumOver(S \ {x}, f)

\* C5 - Status derivation: whenever at least one workload is matched, with
\* sums (desired, ready), the status is Failed iff ready = 0 and desired > 0,
\* Running iff ready = desired and desired > 0, Degraded iff
\* 0 < ready < desired; NotDeployed only when zero workloads are matched.
\* (Stated for the evaluations whose cluster queries all succeed.)
C5_StatusDerivation ==
    /\ \A rec \in StatusRecords(call) :
        (rec.deployed /\ (call.q[1].kubectl = "ok" \/ call.q[1].api = "ok")) =>
            LET desired == rec.replicas[1].desired
                ready == rec.replicas[1].ready
            IN  /\ rec.status = "failed" <=> (ready = 0 /\ desired > 0)
                /\ rec.status = "running" <=> (ready = desired /\ desired > 0)
                /\ rec.status = "degraded" <=> (0 < ready /\ ready < desired)
    /\ (call.op = "status" /\ PreStatus(call) = "not_deployed"
        /\ call.q[1].kubectl = "ok")
       => MatchedKubectl(workloads, Namespace(call.tenant, call.environment),
                         call.module) = {}

\* C6 - Status is derived solely from ReplicaState: two status evaluations
\* with non-empty matched sets and equal (desired, ready) sums report the
\* same status, whatever the module and whatever the query path.
C6_StatusFromReplicasOnly ==
    [][(/\ call.op = "status" /\ call'.op = "status"
        /\ call.pre[1].deployed /\ call'.pre[1].deployed
        /\ call.pre[1].replicas = call'.pre[1].replicas)
       => call.pre[1].status = call'.pre[1].status
      ]_vars

\* C7 - Label merge de-duplication: the aggregated ReplicaState of a status
\* evaluation whose queries succeed is the sum over the set of distinct
\* matched workloads, each counted once however many selectors match it.
C7_DedupCountsOnce ==
    (call.op = "status" /\ call.pre[1].deployed) =>
        LET namespace == Namespace(call.tenant, call.environment)
            sums == call.pre[1].replicas[1]
            byKubectl == MatchedKubectl(workloads, namespace, call.module)
            byApi == MatchedApi(workloads, namespace, call.module)
        IN  /\ call.q[1].kubectl = "ok" =>
                /\ sums.desired = SumOver(byKubectl, [w \in byKubectl |-> workloads[w].desired])
                /\ sums.ready = SumOver(byKubectl, [w \in byKubectl |-> workloads[w].ready])
            /\ call.q[1].api = "ok" =>
                /\ sums.desired = SumOver(byApi, [w \in byApi |-> StatusReplicas(workloads[w])])
                /\ sums.ready = SumOver(byApi, [w \in byApi |-> workloads[w].ready])

\* a status evaluation has summed a workload that several selectors match
C7_Witness ==
    /\ call.op = "status"
    /\ call.q[1].kubectl = "ok"
    /\ call.pre[1].deployed
    /\ call.pre[1].replicas[1].desired > 0
    /\ LET namespace == Namespace(call.tenant, call.environment)
           selectors == LabelSelectors(namespace, call.module)
       IN  \E w \in MatchedKubectl(workloads, namespace, call.module) :
               Cardinality({i \in 1..Len(selectors) : selectors[i] \in Labels(w)}) >= 2

\* the cleanup commands of a trace: all but the uninstall
CleanupOf(trace) == SelectSeq(trace.commands, LAMBDA c : c.verb # "helm uninstall")

\* the cleanup tiers as (cleanup_pvcs, cleanup_all)
TierNone == <<FALSE, FALSE>>
TierPVCsOnly == <<TRUE, FALSE>>
TierFull == <<TRUE, TRUE>>

TierOf(trace) == <<trace.cleanup_pvcs[1], trace.cleanup_all[1]>>

\* the cleanup action set of a tier for the pair of a trace
ActionSet(trace, tier) ==
    Range(CleanupCommands(trace.module, Namespace(trace.tenant, trace.environment),
                          tier[1], tier[2]))

Uninstalled(trace) ==
    trace.op = "disable" /\ trace.response.success /\ trace.response.undeploy # <<>>

\* C8 - Cleanup tier monotonicity: the cleanup actions a Disable executes with
\* tier Full include every action of tier PVCsOnly for the same pair, those
\* executed with PVCsOnly include every action of tier None and are among
\* those of Full, and those executed with None are among those of PVCsOnly.
C8_TierMonotonicity ==
    Uninstalled(call) =>
        LET executed == Range(CleanupOf(call))
        IN  /\ TierOf(call) = TierFull =>
                /\ ActionSet(call, TierPVCsOnly) \subseteq executed
                /\ ActionSet(call, TierNone) \subseteq executed
            /\ TierOf(call) = TierPVCsOnly =>
                /\ ActionSet(call, TierNone) \subseteq executed
                /\ executed \subseteq ActionSet(call, TierFull)
            /\ TierOf(call) = TierNone =>
                /\ executed \subseteq ActionSet(call, TierPVCsOnly)
                /\ executed \subseteq ActionSet(call, TierFull)

\* a Disable with tier Full has executed its cleanup, PVC deletion included
C8_Witness ==
    /\ Uninstalled(call)
    /\ TierOf(call) = TierFull
    /\ \E c \in Range(CleanupOf(call)) : c.kind = "pvcs"
    /\ \E c \in Range(CleanupOf(call)) : c.kind = "secrets"

\* C9 - Disable with tier PVCsOnly on a Running module: after the uninstall
\* succeeds exactly the PVC-matching cleanup action runs; no secret,
\* configmap or other auxiliary-resource deletion runs.
C9_PvcsOnlyRunsOnlyPvcCleanup ==
    (/\ Uninstalled(call)
     /\ TierOf(call) = TierPVCsOnly
     /\ PreStatus(call) = "running")
    => CleanupOf(call) =
          <<DeleteMatching(Namespace(call.tenant, call.environment), "pvcs", call.module)>>

\* C10 - Disable with tier None has an empty cleanup plan: apart from the
\* release-manager uninstall it issues no deletion of any cluster object.
C10_TierNoneDeletesNothing ==
    (call.op = "disable" /\ TierOf(call) = TierNone) => CleanupOf(call) = <<>>

\* the handler has issued a PersistentVolumeClaim deletion
DeletesPvcs(trace) == \E c \in Range(trace.commands) : c.kind = "pvcs"

\* C11 - Keep-data disable preserves PVCs: a Disable called with
\* cleanup_pvcs = false issues no PersistentVolumeClaim deletion, whatever
\* cleanup_all is.
C11_KeepDataPreservesPvcs ==
    (call.op = "disable" /\ ~call.cleanup_pvcs[1]) => ~DeletesPvcs(call)

\* C12 - PVC deletion is never silent: a Disable that issues a
\* PersistentVolumeClaim deletion returns the data-loss warning and reports
\* pvcs_cleaned = true.
C12_PvcDeletionFlagged ==
    (call.op = "disable" /\ DeletesPvcs(call)) =>
        /\ call.response.cleanup_warnings # <<>>
        /\ "PVCs will be deleted (data loss!)" \in Range(call.response.cleanup_warnings[1])
        /\ call.response.undeploy # <<>>
        /\ call.response.undeploy[1].pvcs_cleaned

\* C13 - Uninstall is idempotent at the release manager: a Disable whose
\* uninstall meets a release that does not exist reports success; a non-zero
\* exit for a release that exists is reported as a failed undeployment.
C13_UninstallNotFoundIsSuccess ==
    [][(call'.op = "disable" /\ call'.module \in CatalogModules /\ call'.helm = "error") =>
          LET release_name ==
                  ReleaseName(Namespace(call'.tenant, call'.environment), call'.module)
          IN  IF release_name \notin releases
              THEN call'.response.success
              ELSE /\ ~call'.response.success
                   /\ "Undeployment failed" \in Range(call'.response.detail)
      ]_vars

\* C14 - Install failure classification: a release-manager timeout during
\* Enable is reported as timed out (408, "Module deployment timed out") and
\* never as a failed deployment; every other failure of the install is
\* reported as "Deployment failed" and never as timed out.
C14_TimeoutDistinctFromFailure ==
    /\ (call.op = "enable" /\ call.helm = "timeout") =>
          /\ ~call.response.success
          /\ "408" \in Range(call.response.detail)
          /\ "Module deployment timed out" \in Range(call.response.detail)
          /\ "Deployment failed" \notin Range(call.response.detail)
    /\ (call.op = "enable" /\ call.helm \in {"error", "nochart"}) =>
          /\ ~call.response.success
          /\ "Deployment failed" \in Range(call.response.detail)
          /\ "408" \notin Range(call.response.detail)
          /\ "Module deployment timed out" \notin Range(call.response.detail)

\* an Enable whose install timed out has returned its error
C14_Witness ==
    /\ call.op = "enable"
    /\ call.helm = "timeout"
    /\ ~call.response.success

\* C15 - No swallowed errors: whenever the install or the uninstall fails,
\* Enable / Disable returns an error, never a success, and the error carries
\* the release manager's stderr text.
C15_NoSwallowedErrors ==
    /\ (call.op \in {"enable", "disable"} /\ call.helm \in {"error", "timeout", "nochart"})
          => ~call.response.success /\ call.response.code >= 400
    /\ (call.op = "enable" /\ call.helm = "error")
          => call.response.detail[Len(call.response.detail)] = "stderr"
    /\ (call.op = "disable" /\ call.helm = "error")
          => call.response.detail[Len(call.response.detail)]
                 \in {"stderr", "release: not found"}

\* a Disable whose uninstall exited non-zero has returned its error
C15_Witness ==
    /\ call.op = "disable"
    /\ call.helm = "error"
    /\ "stderr" \in Range(call.response.detail)

\* every workload query of the evaluation fails
AllQueriesFail(q) ==
    \/ q.kubectl = "exit1"
    \/ q.kubectl = "raise" /\ q.api \in {"none", "raise"}

\* C16 - Query failure is Unknown, not NotDeployed: when every workload query
\* fails (errors or exits non-zero) the reported status is Unknown with the
\* underlying error attached, never NotDeployed.
C16_QueryFailureIsUnknown ==
    (call.q # <<>> /\ AllQueriesFail(call.q[1])) =>
        \A rec \in StatusRecords(call) :
            /\ rec.status = "unknown"
            /\ rec.error # <<>>

\* C17 - Namespaces are never created by the core: no Enable or Disable
\* changes the set of namespaces, and an Enable that reaches the install in a
\* namespace that does not exist fails.
C17_NamespacesNeverCreated ==
    [][(call'.op \in {"enable", "disable"}) =>
          /\ namespaces' = namespaces
          /\ (/\ call'.op = "enable"
              /\ call'.install_calls = 1
              /\ Namespace(call'.tenant, call'.environment) \notin namespaces)
             => ~call'.response.success
      ]_vars

\* C18 - ModuleUnknown fails fast: Enable and Disable of a module that is not
\* in the catalog fail with a not-found error, having queried nothing and
\* issued no command.
C18_ModuleUnknownFailsFast ==
    (call.op \in {"enable", "disable"} /\ call.module \notin CatalogModules) =>
        /\ ~call.response.success
        /\ "404" \in Range(call.response.detail)
        /\ call.pre = <<>>
        /\ call.commands = <<>>


\* what an observer sees of the pair (namespace, module_name): its chart's
\* workloads with their replica state, its chart's PVCs and Jobs, and the
\* status the reader reports for it while kubectl works
PairView(wl, pv, jb, namespace, module_name) ==
    [workloads |-> {<<w, wl[w]>> : w \in ChartWorkloads(namespace, module_name)
                                          \cap DOMAIN wl},
     pvcs |-> ChartPvcs(namespace, module_name) \cap pv,
     jobs |-> ChartJobs(namespace, module_name) \cap jb,
     status |-> is_module_deployed(wl, namespace, module_name,
                                   [kubectl |-> "ok", api |-> "unused"])]

\* C20 - Tenant isolation: an Enable or Disable on (M, N) leaves the
\* workloads, the auxiliary resources (PVCs, Jobs) and the observed status of
\* every other pair (M', N') unchanged, a different module in the same
\* namespace included.
C20_OtherPairsUntouched ==
    [][(call'.op \in {"enable", "disable"}) =>
        \A n \in Namespaces, m \in CatalogModules :
            (n # Namespace(call'.tenant, call'.environment) \/ m # call'.module) =>
                PairView(workloads', pvcs', jobs', n, m)
                    = PairView(workloads, pvcs, jobs, n, m)]_vars


\* the release a request installs
RequestRelease(req) == ReleaseName(Namespace(tenant, req.environment), req.module)

\* C19 - Release uniqueness under concurrency: however two or more Enable
\* calls on the same (module, namespace) pair interleave, at no time are two
\* installs for the same release name in progress.
C19_OneInstallPerRelease ==
    \A i, j \in DOMAIN requests :
        (/\ i # j
         /\ requests[i].state = "installing"
         /\ requests[j].state = "installing")
        => RequestRelease(requests[i]) # RequestRelease(requests[j])

\* an install is in progress while a second Enable for the same pair, received
\* meanwhile, waits for the loop
C19_Witness ==
    \E i, j \in DOMAIN requests :
        /\ i # j
        /\ requests[i].state = "installing"
        /\ requests[j].state = "received"
        /\ RequestRelease(requests[i]) = RequestRelease(requests[j])


\* the cleanup commands planned for the Disable recorded in `trace`
PlannedCleanup(trace) ==
    CleanupCommands(trace.module, Namespace(trace.tenant, trace.environment),
                    trace.cleanup_pvcs[1], trace.cleanup_all[1])

\* the entries of cleanup_performed in the response of a successful Disable
CleanupPerformed(trace) == trace.response.undeploy[1].cleanup_performed

\* C21 - Best-effort cleanup: when a cleanup action of a Disable fails, every
\* planned cleanup action is still attempted, in the planned order, and the
\* Disable, whose uninstall succeeded, returns success.
C21_BestEffortCleanup ==
    (call.op = "disable" /\ call.cleanup \in {"exit1", "raise", "raise1"}) =>
        /\ call.response.success
        /\ call.response.undeploy # <<>>
        /\ SubSeq(call.commands, 2, Len(call.commands)) = PlannedCleanup(call)

\* a complete cleanup whose first pipeline raised: the warning is recorded and
\* the Disable succeeded
C21_Witness ==
    /\ call.op = "disable"
    /\ call.cleanup = "raise1"
    /\ call.cleanup_all[1]
    /\ call.response.success
    /\ \E e \in Range(CleanupPerformed(call)) : e.outcome = "warning"
    /\ Len(call.commands) > 2


\* C22 - Per-action outcome list: the result of a Disable whose uninstall
\* succeeded holds one outcome entry for every cleanup action attempted
\* (custom-resource and job cleanup included), and the entry of an action that
\* failed says so: it is neither "none found" nor missing.
C22_OutcomePerAction ==
    (call.op = "disable" /\ call.cleanup # "none") =>
        /\ Len(CleanupPerformed(call)) = 1 + Len(PlannedCleanup(call))
        /\ \A i \in 1..Len(PlannedCleanup(call)) :
              ModeAt(call.cleanup, i) # "ok" =>
                  CleanupPerformed(call)[i + 1].outcome = "warning"


\* C23 - Timeout mid-install re-queries status: an Enable whose install is
\* cut off by its deadline queries the pair's status again before it returns.
C23_TimeoutRequeriesStatus ==
    (call.op = "enable" /\ call.helm = "timeout") => call.post # <<>>


\* the --set overrides of the install issued by the Enable recorded in `trace`
InstallSets(trace) == HelmInstalls(trace.commands)[1].sets[1]

\* C24 - Tenant context injection is faithful: for every (tenant, environment)
\* given to an Enable that installs, tenant names with a '-' included, the
\* tenant and environment overrides handed to the release manager are the
\* given tenant and environment, and the namespace override is
\* "{tenant}-{environment}".
C24_TenantContextFaithful ==
    (call.op = "enable" /\ HelmInstalls(call.commands) # <<>>) =>
        /\ InstallSets(call).spandaTenant = call.tenant
        /\ InstallSets(call).spandaEnvironment = call.environment
        /\ InstallSets(call).namespace = Namespace(call.tenant, call.environment)


\* the infrastructure of the status reader works
KubectlWorks == [kubectl |-> "ok", api |-> "unused"]

\* status of (namespace, module_name) as a working reader reports it
Observed(wl, namespace, module_name) ==
    is_module_deployed(wl, namespace, module_name, KubectlWorks)

\* nothing but the pair's own release makes the pair count as deployed: the
\* pair was not deployed when its workflow began and nobody else acted since
OnlyOwnWorkloads(wl, namespace, module_name) ==
    LET others == (DOMAIN wl) \ ChartWorkloads(namespace, module_name)
    IN  ~Observed([w \in others |-> wl[w]], namespace, module_name).deployed

\* C25 - Enable / status / disable workflow: for a pair that starts not
\* deployed and is touched by no other actor, with the release manager and
\* the status queries working, Enable succeeds and the pair is then reported
\* as deployed, a status query on the installed pair reports deployed = true,
\* Disable succeeds and leaves no release and a pair reported as not deployed,
\* and a status query on the pair without release reports not deployed.
C25_EnableStatusDisable ==
    [][LET ns == Namespace(call'.tenant, call'.environment)
           m == call'.module
           rel == ReleaseName(ns, m)
       IN  (/\ m \in CatalogModules
            /\ call'.q = <<KubectlWorks>>
            /\ OnlyOwnWorkloads(workloads, ns, m)) =>
               /\ (call'.op = "enable" /\ rel \notin releases /\ call'.helm = "ok") =>
                     /\ call'.response.success
                     /\ rel \in releases'
                     /\ Observed(workloads', ns, m).deployed
               /\ (call'.op = "status") =>
                     (call'.response.status[1].deployed <=> rel \in releases)
               /\ (call'.op = "disable" /\ rel \in releases /\ call'.helm = "ok") =>
                     /\ call'.response.success
                     /\ rel \notin releases'
                     /\ ~Observed(workloads', ns, m).deployed
      ]_vars

\* a Disable ended the workflow of a pair: the release that an Enable had
\* installed is gone and the post-check reports not deployed
C25_Witness ==
    /\ call.op = "disable"
    /\ call.q = <<KubectlWorks>>
    /\ call.helm = "ok"
    /\ call.response.success
    /\ ~call.post[1].deployed
    /\ ReleaseName(Namespace(call.tenant, call.environment), call.module) \notin releases


\* C26 - Endpoints require authentication: GET /api/v1/modules and
\* GET /api/v1/tenants without a valid bearer token are answered with 401
\* and return no module or tenant data.
C26_ListingsRequireAuth ==
    (call.op \in {"list_modules", "list_tenants"} /\ call.auth # <<"valid">>) =>
        /\ call.response.code = 401
        /\ call.response.data = <<>>


\* the workloads of the release of (namespace, module_name), nothing else
OwnWorkloads(wl, namespace, module_name) ==
    [w \in (DOMAIN wl) \cap ChartWorkloads(namespace, module_name) |-> wl[w]]

\* C27 - No cross-module contamination of replica counts: the status and the
\* replica sums reported for a module M are those of M's own workloads; a
\* workload of another module, matched only through a broad selector, is
\* filtered out before summing and never changes M's status.
C27_NoCrossModuleContamination ==
    \A namespace \in Namespaces, module_name \in CatalogModules :
        Observed(workloads, namespace, module_name)
            = Observed(OwnWorkloads(workloads, namespace, module_name),
                       namespace, module_name)


\* C28 - Merged sums decide, not a per-kind vote: the status of every entry of
\* the per-tenant deployed-modules listing is the status derived from the
\* entry's merged (replicas, ready) sums, and the module status endpoint never
\* reports Running while the merged ready count is below the merged desired
\* count.
C28_MergedSumsDecide ==
    /\ (call.op = "list_tenants") =>
          \A t \in Range(call.response.data) :
              \A e \in Range(t.deployed_modules) :
                  e.status = ListingStatus(e.replicas, e.ready_replicas)
    /\ (call.op = "status" /\ call.pre[1].replicas # <<>>) =>
          (call.pre[1].status = "running" =>
              call.pre[1].replicas[1].ready >= call.pre[1].replicas[1].desired)


HelmUninstalls(commands) == SelectSeq(commands, LAMBDA c : c.verb = "helm uninstall")

\* C29 - No implicit retries: one Enable invokes the release manager's install
\* at most once and one Disable invokes its uninstall at most once, whatever
\* the outcome of the invocation.
C29_NoImplicitRetries ==
    /\ (call.op = "enable") => Len(HelmInstalls(call.commands)) <= 1
    /\ (call.op = "disable") => Len(HelmUninstalls(call.commands)) <= 1

\* an install that failed and was issued exactly once
C29_Witness ==
    /\ call.op = "enable"
    /\ call.helm = "error"
    /\ ~call.response.success
    /\ Len(HelmInstalls(call.commands)) = 1


\* C30 - Enable sequencing: an Enable that installs goes through pre-check
\* status query, install, settle wait, post-check status query, in this
\* order; after a successful install the status is read again exactly once and
\* returned together with the install result; after a failed install no
\* post-check is made and none is returned.
C30_EnableSequencing ==
    (call.op = "enable" /\ HelmInstalls(call.commands) # <<>>) =>
        /\ Len(call.pre) = 1
        /\ IF call.helm = "ok"
           THEN /\ call.steps = <<"query", "install", "wait", "query">>
                /\ Len(call.post) = 1
                /\ call.response.success
                /\ call.response.status = call.post
                /\ call.response.deployment # <<>>
           ELSE /\ call.steps = <<"query", "install">>
                /\ call.post = <<>>
                /\ ~call.response.success
                /\ call.response.status = <<>>

\* an Enable installed, waited and returned the post-check status, which
\* differs from what the pre-check had seen
C30_Witness ==
    /\ call.op = "enable"
    /\ call.helm = "ok"
    /\ Len(call.steps) = 4
    /\ call.response.status = call.post
    /\ call.post # call.pre


\* C31 - Disable sequencing: a Disable that is not a no-op calls the uninstall
\* first and the cleanup actions after it; when the uninstall fails no cleanup
\* action is issued and no PVC or Job is deleted; when it succeeds the status
\* is read again after the cleanup and returned together with the uninstall
\* result and the cleanup outcomes.
C31_DisableSequencing ==
    [][(call'.op = "disable" /\ call'.commands # <<>>) =>
          /\ call'.commands[1].verb = "helm uninstall"
          /\ \A i \in 2..Len(call'.commands) : call'.commands[i].verb # "helm uninstall"
          /\ IF call'.helm = "ok"
             THEN /\ call'.steps = <<"query", "uninstall", "wait", "query">>
                  /\ Len(call'.post) = 1
                  /\ call'.response.success
                  /\ call'.response.status = call'.post
                  /\ call'.response.undeploy # <<>>
                  /\ CleanupPerformed(call')[1] = Outcome("release", "uninstalled")
             ELSE /\ Len(call'.commands) = 1
                  /\ pvcs' = pvcs
                  /\ jobs' = jobs
                  /\ call'.post = <<>>
                  /\ ~call'.response.success
      ]_vars

\* the uninstall of an installed release failed in a Disable that asked for
\* the PVC cleanup: the PVCs are still there
C31_Witness ==
    /\ call.op = "disable"
    /\ call.helm = "error"
    /\ call.cleanup_pvcs[1]
    /\ ReleaseName(Namespace(call.tenant, call.environment), call.module) \in releases
    /\ PvcVictims(Cluster, Namespace(call.tenant, call.environment), call.module) # {}


\* C32 - Disable distinguishes Unknown from NotDeployed: a Disable returns the
\* immediate "already not deployed" success, without calling the uninstall,
\* only when its pre-check status is NotDeployed, never when it is Unknown.
C32_DisableUnknownIsNotNoop ==
    (/\ call.op = "disable"
     /\ call.response.success
     /\ HelmUninstalls(call.commands) = <<>>)
    => PreStatus(call) = "not_deployed"


\* the pre-flight deletion of the one-shot Job in the namespace of `trace`
PreflightCmd(trace) ==
    Cmd("kubectl delete", Namespace(trace.tenant, trace.environment), "job", DataLakeInit)

\* C33 - Pre-flight cleanup is ordered and non-fatal: in every install the
\* deletion of the leftover one-shot Job is attempted before the release
\* manager's upgrade-or-install, and the upgrade-or-install is invoked whether
\* the deletion succeeds, fails, times out or finds no Job.
C33_PreflightOrderedNonFatal ==
    (call.op = "enable" /\ call.commands # <<>>) =>
        /\ Len(call.commands) = 2
        /\ call.commands[1] = PreflightCmd(call)
        /\ call.commands[2].verb = "helm upgrade --install"

\* the pre-flight deletion failed (the Job outlived an install that failed
\* too), and the release manager was invoked all the same
C33_Witness ==
    /\ call.op = "enable"
    /\ call.helm = "error"
    /\ \E j \in jobs : /\ j.ns = Namespace(call.tenant, call.environment)
                       /\ j.name = DataLakeInit
    /\ Len(HelmInstalls(call.commands)) = 1


\* the workloads a status evaluation of `trace` matched, by the path that answered
MatchedBy(trace) ==
    LET namespace == Namespace(trace.tenant, trace.environment)
    IN  IF trace.q[1].kubectl = "ok"
        THEN MatchedKubectl(workloads, namespace, trace.module)
        ELSE MatchedApi(workloads, namespace, trace.module)

\* the desired count the answering path reads: .spec.replicas by kubectl,
\* status.replicas by the API
CountedDesired(trace, w) ==
    IF trace.q[1].kubectl = "ok" THEN workloads[w].desired
    ELSE StatusReplicas(workloads[w])

C35_CacheCoherence ==
    /\ (loaded.kind = "definitions" /\ config_file.exists) =>
           load_module_definitions(config_file) = [raised |-> FALSE, value |-> loaded.value]
    /\ loaded.kind = "error" =>
           (module_definitions = <<>> \/ last_modified # <<config_file.mtime>>)

\* C36 - Login installs the new token in the session: after a login whose
\* response carries access_token the session's Authorization header is
\* "Bearer <new token>"; the previous headers are back only after a login
\* that failed.
C36_LoginInstallsToken ==
    /\ (logged.kind = "returned" /\ logged.access_token # <<>>) =>
           session.Authorization = Bearer(logged.access_token[1])
    /\ (logged.kind = "raised" \/ (logged.kind = "returned" /\ logged.access_token = <<>>)) =>
           session = logged.old_headers

\* C37 - Module discovery fallback terminates: when the scan of the charts
\* directory has raised, get_available_modules returns, and what it returns
\* is the default list built from MODULE_PATTERNS.
C37_FallbackTerminates ==
    discovery.failed =>
        /\ discovery.kind = "returned"
        /\ discovery.result = DefaultModules


StatusValues == {"running", "degraded", "failed", "not_deployed", "unknown"}

WellFormed(record) ==
    /\ record.status \in StatusValues
    /\ record.deployed <=> record.status \in {"running", "degraded", "failed"}
    /\ record.replicas # <<>> <=> record.deployed
    /\ record.replicas # <<>> => DOMAIN record.replicas[1] = {"desired", "ready"}
    /\ record.error # <<>> <=> record.status = "unknown"

\* C38 - Status record well-formedness: every record that is_module_deployed
\* returns has one of the five status values, deployed exactly for running,
\* degraded and failed, a replicas field (desired, ready) exactly when
\* deployed, and an error field exactly when the status is unknown.
C38_StatusRecordWellFormed ==
    /\ \A i \in DOMAIN call.pre : WellFormed(call.pre[i])
    /\ \A i \in DOMAIN call.post : WellFormed(call.post[i])

\* a status query that failed on both paths has returned its record
C38_Witness ==
    /\ call.op = "status"
    /\ call.pre # <<>>
    /\ PreStatus(call) = "unknown"
    /\ call.pre[1].error # <<>>


\* what the cluster and the release manager hold outside namespace n
Outside(cl, n) ==
    [workloads |-> [w \in {x \in DOMAIN cl.workloads : x.ns # n} |-> cl.workloads[w]],
     releases |-> cl.releases \ {ReleaseName(n, m) : m \in ModuleNames},
     namespaces |-> cl.namespaces \ {n},
     pvcs |-> {p \in cl.pvcs : p.ns # n},
     jobs |-> {j \in cl.jobs : j.ns # n}]

\* the workloads of namespace n alone
Inside(wl, n) == [w \in {x \in DOMAIN wl : x.ns = n} |-> wl[w]]

\* C39 - Namespace scoping: every release-manager call and cleanup deletion
\* that Enable, Disable or GetStatus issues for (tenant, module, environment)
\* names the namespace "{tenant}-{environment}", the status they query is that
\* of this namespace's workloads alone, and whatever other namespaces hold is
\* left as it was.
C39_NamespaceScoping ==
    [][call'.op \in {"enable", "disable", "status"} =>
          LET own == Namespace(tenant, call'.environment)
          IN  /\ \A i \in DOMAIN call'.commands : call'.commands[i].ns = own
              /\ Outside(Cluster', own) = Outside(Cluster, own)
              /\ call'.pre # <<>> =>
                     call'.pre[1] = is_module_deployed(Inside(workloads, own), own,
                                                       call'.module, call'.q[1])
      ]_vars

\* a Disable with PVC cleanup has emptied the tenant's namespace of claims
\* while another namespace holds a claim of the same name
C39_Witness ==
    /\ call.op = "disable"
    /\ call.module = Vault
    /\ call.helm = "ok"
    /\ call.cleanup_pvcs = <<TRUE>>
    /\ Len(call.commands) > 1
    /\ \E p \in pvcs : p.ns # Namespace(tenant, call.environment)
    /\ \A p \in pvcs : p.ns # Namespace(tenant, call.environment)

====
